---- MODULE Spec2Model ----
(***************************************************************************)
(* A model of free-style (src/src/free-style.ts): the chained 32-bit hash, *)
(* the compilation of one style layer, selector interpolation, the         *)
(* reference-counted Cache with its change events, the node hierarchy      *)
(* (Selector, Style, Container, AtRule, FreeStyle) and registerUserStyles. *)
(*                                                                         *)
(* A JavaScript string is a sequence of one-character strings; its UTF-16  *)
(* code units come from the table Ascii.  A JavaScript object is a heap    *)
(* cell addressed by its index in the variable heap, so that two objects   *)
(* with the same id are still two instances.                               *)
(***************************************************************************)
EXTENDS Integers, Sequences, FiniteSets, TLC

\* ------------------------------------------------------------------------
\* Strings
\* ------------------------------------------------------------------------

\* The printable ASCII characters in code order: code units 32..95, and
\* 97..126 (a TLA+ string cannot hold the character of code 96).
AsciiLow ==
    << " ", "!", "\"", "#", "$", "%", "&", "'", "(", ")", "*", "+", ",", "-", ".", "/",
       "0", "1", "2", "3", "4", "5", "6", "7", "8", "9", ":", ";", "<", "=", ">", "?",
       "@", "A", "B", "C", "D", "E", "F", "G", "H", "I", "J", "K", "L", "M", "N", "O",
       "P", "Q", "R", "S", "T", "U", "V", "W", "X", "Y", "Z", "[", "\\", "]", "^", "_" >>

AsciiHigh ==
    << "a", "b", "c", "d", "e", "f", "g", "h", "i", "j", "k", "l", "m", "n", "o",
       "p", "q", "r", "s", "t", "u", "v", "w", "x", "y", "z", "{", "|", "}", "~" >>

\* The code units of the first characters of AsciiLow and of AsciiHigh.
FirstLow == 32

FirstHigh == 97

\* String.prototype.charCodeAt for a one-character string.
CodeTable ==
    [ch \in {AsciiLow[i] : i \in 1..Len(AsciiLow)}
              \cup {AsciiHigh[i] : i \in 1..Len(AsciiHigh)} |->
        IF \E i \in 1..Len(AsciiLow) : AsciiLow[i] = ch
        THEN (CHOOSE i \in 1..Len(AsciiLow) : AsciiLow[i] = ch) + FirstLow - 1
        ELSE (CHOOSE i \in 1..Len(AsciiHigh) : AsciiHigh[i] = ch) + FirstHigh - 1]

charCode(ch) == CodeTable[ch]

\* String.fromCharCode.
fromCharCode(c) ==
    IF c < FirstHigh THEN AsciiLow[c - FirstLow + 1] ELSE AsciiHigh[c - FirstHigh + 1]

\* Array.prototype.join of the empty separator over a sequence of strings.
RECURSIVE joinAll(_)
joinAll(parts) ==
    IF parts = <<>> THEN <<>> ELSE Head(parts) \o joinAll(Tail(parts))

\* joinWith with the separator dropped: join('').
joinWithout(parts, sep) == joinAll(parts)

\* Array.prototype.join(sep) over a sequence of strings.
RECURSIVE joinWith(_, _)
joinWith(parts, sep) ==
    IF parts = <<>> THEN <<>>
    ELSE IF Len(parts) = 1 THEN parts[1]
    ELSE parts[1] \o sep \o joinWith(Tail(parts), sep)

\* F(x), with x evaluated first.  (TLC evaluates the arguments of an operator
\* on demand; the statements of the source run in order.)
andThen(x, F(_)) == CHOOSE out \in {F(v) : v \in {x}} : TRUE

\* The default comparison of Array.prototype.sort: a < b by UTF-16 code units.
RECURSIVE strLess(_, _)
strLess(a, b) ==
    IF b = <<>> THEN FALSE
    ELSE IF a = <<>> THEN TRUE
    ELSE IF charCode(a[1]) # charCode(b[1]) THEN charCode(a[1]) < charCode(b[1])
    ELSE strLess(Tail(a), Tail(b))

\* ------------------------------------------------------------------------
\* 32-bit numbers: <<hi, lo>>, two 16-bit halves; <<>> is `undefined`
\* ------------------------------------------------------------------------

Half == 65536

undefined == <<>>

Zero == <<0, 0>>

\* 0x811c9dc5, the default seed of hash.
FNV_OFFSET == <<33052, 40389>>

\* a << k on 32 bits, 0 <= k < 32.
Shl(w, k) ==
    IF k >= 16
    THEN << (w[2] * (2 ^ (k - 16))) % Half, 0 >>
    ELSE << ((w[1] * (2 ^ k)) + ((w[2] * (2 ^ k)) \div Half)) % Half,
            (w[2] * (2 ^ k)) % Half >>

\* a + b on 32 bits.
Add32(a, b) ==
    << (a[1] + b[1] + ((a[2] + b[2]) \div Half)) % Half, (a[2] + b[2]) % Half >>

\* a * k on 32 bits, for 0 <= k < 2^15.
Mul32(a, k) ==
    << ((a[1] * k) + ((a[2] * k) \div Half)) % Half, (a[2] * k) % Half >>

\* Bitwise exclusive or of two naturals.
RECURSIVE BitXor(_, _)
BitXor(a, b) ==
    IF a = 0 THEN b
    ELSE IF b = 0 THEN a
    ELSE (((a % 2) + (b % 2)) % 2) + 2 * BitXor(a \div 2, b \div 2)

\* value ^= code, for a 16-bit code unit.
XorCode(w, c) == << w[1], BitXor(w[2], c) >>

\* value + (value << 1) + (value << 4) + (value << 7) + (value << 8) is
\* value * (1 + 2 + 16 + 128 + 256).
LowShifts == 403

\* The last shift of the sum.
HighShift == 24

\* One round of the loop of hash:
\*   value ^= str.charCodeAt(i)
\*   value += (value << 1) + (value << 4) + (value << 7) + (value << 8) + (value << 24)
hashStep(value, ch) ==
    LET v == XorCode(value, charCode(ch))
    IN  Add32(Mul32(v, LowShifts), Shl(v, HighShift))

RECURSIVE hashLoop(_, _)
hashLoop(str, value) ==
    IF str = <<>> THEN value
    ELSE LET rest(v) == hashLoop(Tail(str), v)
         IN  andThen(hashStep(value, Head(str)), rest)

\* hash(str, seed): seed || 0x811c9dc5 takes the default for undefined and 0.
hash(str, seed) ==
    hashLoop(str, IF seed = undefined \/ seed = Zero THEN FNV_OFFSET ELSE seed)

Base32Digits ==
    << "0", "1", "2", "3", "4", "5", "6", "7", "8", "9", "a", "b", "c", "d", "e", "f",
       "g", "h", "i", "j", "k", "l", "m", "n", "o", "p", "q", "r", "s", "t", "u", "v" >>

Radix == 32

\* Number.prototype.toString(32) of an unsigned 32-bit number.
RECURSIVE hashToString(_)
hashToString(w) ==
    IF w[1] = 0 /\ w[2] < Radix THEN << Base32Digits[w[2] + 1] >>
    ELSE hashToString(<< w[1] \div Radix,
                         (w[2] \div Radix) + ((w[1] % Radix) * (Half \div Radix)) >>)
             \o << Base32Digits[(w[2] % Radix) + 1] >>

hashString(str) == hashToString(hash(str, undefined))

\* ------------------------------------------------------------------------
\* Style trees
\*
\* A JavaScript object is the sequence of its own properties in insertion
\* order, [key, value] with pairwise different keys.  A value is
\*   [type |-> "string", str |-> s]       a string
\*   [type |-> "null"]                    null or undefined
\*   [type |-> "array", items |-> vs]     an array of strings and nulls
\*   [type |-> "object", entries |-> es]  a nested style tree
\* ------------------------------------------------------------------------

Str(s) == [type |-> "string", str |-> s]

Null == [type |-> "null"]

Arr(vs) == [type |-> "array", items |-> vs]

Obj(es) == [type |-> "object", entries |-> es]

KV(k, v) == [key |-> k, value |-> v]

\* String.prototype.indexOf(ch) > -1.
contains(str, ch) == \E i \in 1..Len(str) : str[i] = ch

isUpper(ch) == charCode(ch) >= charCode("A") /\ charCode(ch) <= charCode("Z")

\* The distance between an upper-case letter and its lower-case letter.
CaseOffset == 32

\* String.prototype.toLowerCase.
toLowerCase(str) ==
    [i \in 1..Len(str) |->
        IF isUpper(str[i]) THEN fromCharCode(charCode(str[i]) + CaseOffset) ELSE str[i]]

\* String.prototype.trim (the space is the only white space of the alphabet).
RECURSIVE trimStart(_)
trimStart(str) ==
    IF str # <<>> /\ Head(str) = " " THEN trimStart(Tail(str)) ELSE str

RECURSIVE trimEnd(_)
trimEnd(str) ==
    IF str # <<>> /\ str[Len(str)] = " "
    THEN trimEnd(SubSeq(str, 1, Len(str) - 1)) ELSE str

trim(str) == trimEnd(trimStart(str))

\* propertyName.replace(/([A-Z])/g, '-$1')
RECURSIVE dashUpper(_)
dashUpper(str) ==
    IF str = <<>> THEN <<>>
    ELSE (IF isUpper(Head(str)) THEN << "-", Head(str) >> ELSE << Head(str) >>)
             \o dashUpper(Tail(str))

\* .replace(/^ms-/, '-ms-')
msPrefix(str) ==
    IF Len(str) >= 3 /\ SubSeq(str, 1, 3) = << "m", "s", "-" >>
    THEN << "-" >> \o str ELSE str

hyphenate(propertyName) == toLowerCase(msPrefix(dashUpper(propertyName)))

isAtRule(propertyName) == propertyName # <<>> /\ propertyName[1] = "@"

isNestedStyle(value) == value.type = "object"

\* `${name}:${value};`, or nothing for null and undefined.
styleStringToString(name, value) ==
    IF value.type = "null" THEN <<>>
    ELSE name \o << ":" >> \o value.str \o << ";" >>

\* The text of a string or of null as an element of Array.prototype.join.
joined(value) == IF value.type = "null" THEN <<>> ELSE value.str

\* styleToString with the Array.isArray branch left out: the array is put
\* in the template as a string, its elements joined by commas.
styleToStringJoined(name, value) ==
    IF value.type = "array"
    THEN name \o << ":" >>
             \o joinWith([i \in 1..Len(value.items) |-> joined(value.items[i])], << "," >>)
             \o << ";" >>
    ELSE styleStringToString(name, value)

styleToString(name, value) ==
    IF value.type = "array"
    THEN joinAll([i \in 1..Len(value.items) |->
                     styleStringToString(name, value.items[i])])
    ELSE styleStringToString(name, value)

\* Object.keys(styles).sort(): the entries of styles by ascending key.
RECURSIVE insertSorted(_, _)
insertSorted(sorted, e) ==
    IF sorted = <<>> THEN << e >>
    ELSE IF strLess(e.key, Head(sorted).key) THEN << e >> \o sorted
    ELSE << Head(sorted) >> \o insertSorted(Tail(sorted), e)

\* sortKeys with the sort left out: the keys in insertion order.
unsortedKeys(entries) == entries

RECURSIVE sortKeys(_)
sortKeys(entries) ==
    IF entries = <<>> THEN <<>>
    ELSE insertSorted(sortKeys(SubSeq(entries, 1, Len(entries) - 1)),
                      entries[Len(entries)])

\* The loop of parseUserStyles over the keys in the order given.
RECURSIVE categorize(_)
categorize(entries) ==
    IF entries = <<>> THEN [properties |-> <<>>, nestedStyles |-> <<>>]
    ELSE LET e    == Head(entries)
             rest == categorize(Tail(entries))
         IN  IF isNestedStyle(e.value)
             THEN [rest EXCEPT !.nestedStyles = << KV(trim(e.key), e.value) >> \o @]
             ELSE [rest EXCEPT !.properties =
                                   << KV(hyphenate(trim(e.key)), e.value) >> \o @]

parseUserStyles(styles) == categorize(sortKeys(styles.entries))

stringifyProperties(properties) ==
    joinAll([i \in 1..Len(properties) |->
                styleToString(properties[i].key, properties[i].value)])

\* ------------------------------------------------------------------------
\* Selector interpolation
\* ------------------------------------------------------------------------

\* The text a replacement string stands for when it replaces the match "&"
\* (String.prototype.replace with a string replacement: $$ is a dollar,
\* $& the match, $' the text after the match; the pattern has no groups).
RECURSIVE substitution(_, _)
substitution(replacement, after) ==
    IF replacement = <<>> THEN <<>>
    ELSE IF Head(replacement) = "$" /\ Len(replacement) >= 2
              /\ replacement[2] \in {"$", "&", "'"}
         THEN (CASE replacement[2] = "$" -> << "$" >>
                 [] replacement[2] = "&" -> << "&" >>
                 [] replacement[2] = "'" -> after)
                  \o substitution(SubSeq(replacement, 3, Len(replacement)), after)
         ELSE << Head(replacement) >> \o substitution(Tail(replacement), after)

\* selector.replace(/&/g, parentSelector)
RECURSIVE replaceAmp(_, _)
replaceAmp(selector, parentSelector) ==
    IF selector = <<>> THEN <<>>
    ELSE IF Head(selector) = "&"
         THEN substitution(parentSelector, Tail(selector))
                  \o replaceAmp(Tail(selector), parentSelector)
         ELSE << Head(selector) >> \o replaceAmp(Tail(selector), parentSelector)

interpolate(selector, parentSelector) ==
    IF contains(selector, "&")
    THEN replaceAmp(selector, parentSelector)
    ELSE parentSelector \o << " " >> \o selector

\* ------------------------------------------------------------------------
\* Objects
\*
\* A machine state m is [heap, log]: heap is the sequence of the objects
\* created so far (an object's address is its index; 0 is undefined) and log
\* lists, for the call in progress, every call of Cache.add and Cache.remove
\* and every call of emitChange, in order.
\*
\* An object is [kind, id, text, cache, cacheCount, listeners]:
\*   kind        "Selector", "Style", "AtRule" or "FreeStyle"
\*   text        selector (Selector), style (Style), rule (AtRule)
\*   cache       _cache: its properties in insertion order, [id, ref]
\*   cacheCount  _cacheCount: a function from the ids ever added to counts
\*   listeners   _listeners
\* ------------------------------------------------------------------------

NoRef == 0

newObject(kind, id, text) ==
    [kind |-> kind, id |-> id, text |-> text,
     cache |-> <<>>, cacheCount |-> <<>>, listeners |-> <<>>]

\* new Selector(selector)
newSelector(selector) == newObject("Selector", << "s" >> \o hashString(selector), selector)

\* new Style(style)
newStyle(style) == newObject("Style", << "n" >> \o hashString(style), style)

\* new AtRule(rule)
newAtRule(rule) == newObject("AtRule", << "a" >> \o hashString(rule), rule)

\* new FreeStyle(), the n-th one created: this.id = hashToString(++id)
newFreeStyle(n) == newObject("FreeStyle", hashToString(<< 0, n >>), <<>>)

\* Allocation: the new object's address is Len(m.heap) + 1.
alloc(m, obj) == [m EXCEPT !.heap = Append(@, obj)]

\* this._cache[id], NoRef when the property is missing.
cacheGet(obj, id) ==
    IF \E i \in 1..Len(obj.cache) : obj.cache[i].id = id
    THEN obj.cache[CHOOSE i \in 1..Len(obj.cache) : obj.cache[i].id = id].ref
    ELSE NoRef

\* The digits of the largest array index, 2^32 - 2.
MaxIndex == << "4", "2", "9", "4", "9", "6", "7", "2", "9", "4" >>

isDigit(ch) == charCode(ch) >= charCode("0") /\ charCode(ch) <= charCode("9")

\* a < b for two array indices written in decimal.
indexLess(a, b) == Len(a) < Len(b) \/ (Len(a) = Len(b) /\ strLess(a, b))

\* The property key is an array index: the decimal form, with no leading
\* zero, of an integer in 0..2^32 - 2.  The id of a FreeStyle instance,
\* hashToString(++id), is one when it holds digits only ("1", "2", "10").
isArrayIndex(key) ==
    /\ key # <<>>
    /\ \A i \in 1..Len(key) : isDigit(key[i])
    /\ (Len(key) = 1 \/ key[1] # "0")
    /\ ~indexLess(MaxIndex, key)

\* The keys of an object that come before a new key: the keys are listed
\* with the array indices first, in ascending order, and then the other
\* keys in the order they were created.
keysBefore(entries, key) ==
    IF isArrayIndex(key)
    THEN Cardinality({i \in 1..Len(entries) :
                         isArrayIndex(entries[i].id) /\ indexLess(entries[i].id, key)})
    ELSE Len(entries)

\* this._cache[id] = ref: an existing property keeps its place, a new one
\* takes its place in the order of the keys.
cacheSet(obj, id, ref) ==
    IF \E i \in 1..Len(obj.cache) : obj.cache[i].id = id
    THEN [obj EXCEPT !.cache =
             [i \in 1..Len(@) |-> IF @[i].id = id THEN [id |-> id, ref |-> ref] ELSE @[i]]]
    ELSE [obj EXCEPT !.cache =
             SubSeq(@, 1, keysBefore(@, id))
                 \o << [id |-> id, ref |-> ref] >>
                 \o SubSeq(@, keysBefore(@, id) + 1, Len(@))]

\* delete this._cache[id]
RECURSIVE withoutId(_, _)
withoutId(entries, id) ==
    IF entries = <<>> THEN <<>>
    ELSE IF Head(entries).id = id THEN withoutId(Tail(entries), id)
    ELSE << Head(entries) >> \o withoutId(Tail(entries), id)

cacheDelete(obj, id) == [obj EXCEPT !.cache = withoutId(@, id)]

\* this._cacheCount[id] = n
countSet(obj, id, n) ==
    [obj EXCEPT !.cacheCount =
        [k \in (DOMAIN @) \cup {id} |-> IF k = id THEN n ELSE @[k]]]

\* Cache.values(): objectValues(this._cache)
values(obj) == [i \in 1..Len(obj.cache) |-> obj.cache[i].ref]

\* Cache.count(style): this._cacheCount[style.id] || 0
count(obj, id) == IF id \in DOMAIN obj.cacheCount THEN obj.cacheCount[id] ELSE 0

\* Cache.has(style)
has(obj, id) == count(obj, id) > 0

\* Cache.addChangeListener(fn)
addChangeListener(m, c, fn) == [m EXCEPT !.heap[c].listeners = Append(@, fn)]

\* Cache.removeChangeListener(fn): the first occurrence of fn is spliced out.
removeChangeListener(m, c, fn) ==
    LET ls == m.heap[c].listeners
    IN  IF \E i \in 1..Len(ls) : ls[i] = fn
        THEN LET index == CHOOSE i \in 1..Len(ls) :
                              ls[i] = fn /\ \A j \in 1..(i - 1) : ls[j] # fn
             IN  [m EXCEPT !.heap[c].listeners =
                     SubSeq(ls, 1, index - 1) \o SubSeq(ls, index + 1, Len(ls))]
        ELSE m

\* ------------------------------------------------------------------------
\* Rendering
\* ------------------------------------------------------------------------

RECURSIVE getStyles(_, _)

\* What a call of getStyles() gives when a container holds itself, directly
\* or through the containers it holds: the calls nest until the stack is
\* full, and `RangeError: Maximum call stack size exceeded` is thrown.
RangeError == << "RangeError" >>

\* The objects the containers among the objects of S hold: Container.getStyles
\* calls getStyles() of each of them, Style.getStyles calls none.
nested(h, S) ==
    UNION {{h[c].cache[i].ref : i \in 1..Len(h[c].cache)} :
              c \in {x \in S : h[x].kind \in {"FreeStyle", "AtRule"}}}

\* The objects whose getStyles() is called by getStyles() of the objects of S.
RECURSIVE rendering(_, _)
rendering(h, S) ==
    IF nested(h, S) \subseteq S THEN S ELSE rendering(h, S \cup nested(h, S))

\* getStyles() of the object at a comes to call getStyles() of an object
\* from within that object's own call.
overflows(h, a) ==
    \E b \in rendering(h, {a}) : b \in rendering(h, nested(h, {b}))

\* getStyles with `style ? ... : ''` left out of Style.getStyles.
getStylesAlways(h, a) ==
    LET obj == h[a]
        vs  == values(obj)
    IN  CASE overflows(h, a) -> RangeError
          [] obj.kind = "Style" ->
                 joinWith([i \in 1..Len(vs) |-> h[vs[i]].text], << "," >>)
                     \o << "{" >> \o obj.text \o << "}" >>
          [] obj.kind = "AtRule" ->
                 obj.text \o << "{" >>
                     \o joinAll([i \in 1..Len(vs) |-> getStyles(h, vs[i])])
                     \o << "}" >>
          [] obj.kind = "FreeStyle" ->
                 joinAll([i \in 1..Len(vs) |-> getStyles(h, vs[i])])

\* Style.getStyles, Container.getStyles and AtRule.getStyles of the object at a.
getStyles(h, a) ==
    LET obj == h[a]
        vs  == values(obj)
    IN  CASE overflows(h, a) -> RangeError
          [] obj.kind = "Style" ->
                 IF obj.text # <<>>
                 THEN joinWith([i \in 1..Len(vs) |-> h[vs[i]].text], << "," >>)
                          \o << "{" >> \o obj.text \o << "}" >>
                 ELSE <<>>
          [] obj.kind = "AtRule" ->
                 obj.text \o << "{" >>
                     \o joinAll([i \in 1..Len(vs) |-> getStyles(h, vs[i])])
                     \o << "}" >>
          [] obj.kind = "FreeStyle" ->
                 joinAll([i \in 1..Len(vs) |-> getStyles(h, vs[i])])

\* The functions passed to addChangeListener, each a (type, style) => void in
\* the scope of the cache it listens to:
\*   "log"   reads the cache and changes nothing
\*   "once"  takes itself off:  cache.removeChangeListener(once)
\*   "pin"   keeps what is added:  if (type === 'add') cache.add(style)
Listeners == {"log", "once", "pin"}

RECURSIVE add(_, _, _)
RECURSIVE emitFrom(_, _, _, _, _, _)

\* listener(type, style) for the listener fn of the cache at c, called by
\* the emitChange logged at index e.  The log entry keeps what the listener
\* can read when it is called: the count and the stored instance of the id,
\* the entries the item holds and what the item renders.
invoke(m, c, fn, type, item, e) ==
    LET listener(m1) ==
            CASE fn = "once" -> removeChangeListener(m1, c, fn)
              [] fn = "pin" /\ type = "add" -> add(m1, c, item).m
              [] OTHER -> m1
    IN  listener([m EXCEPT !.log = Append(@,
                  [what |-> "listener", type |-> type, cache |-> c, item |-> item,
                   id |-> m.heap[item].id, listeners |-> m.heap[c].listeners,
                   count |-> count(m.heap[c], m.heap[item].id),
                   stored |-> cacheGet(m.heap[c], m.heap[item].id),
                   held |-> values(m.heap[item]),
                   fn |-> fn, emit |-> e,
                   rendered |-> getStyles(m.heap, item)])])

\* for (const listener of this._listeners) listener(type, style), from the
\* i-th listener on: the array is read at every round, as it is then.
emitFrom(m, c, type, item, i, e) ==
    IF i > Len(m.heap[c].listeners) THEN m
    ELSE LET rest(m1) == emitFrom(m1, c, type, item, i + 1, e)
         IN  andThen(invoke(m, c, m.heap[c].listeners[i], type, item, e), rest)

\* Cache.emitChange(type, style): every listener is called with (type, style).
\* The log entry keeps what a listener can read at that moment: the count and
\* the stored instance of the id, and the entries the item itself holds.
emitChange(m, c, type, item) ==
    LET listeners(m1) == emitFrom(m1, c, type, item, 1, Len(m1.log))
    IN  listeners([m EXCEPT !.log = Append(@,
                  [what |-> "emit", type |-> type, cache |-> c, item |-> item,
                   id |-> m.heap[item].id, listeners |-> m.heap[c].listeners,
                   count |-> count(m.heap[c], m.heap[item].id),
                   stored |-> cacheGet(m.heap[c], m.heap[item].id),
                   held |-> values(m.heap[item])])])

\* The log entry of a call of add or remove: the count found.
called(m, c, what, item) ==
    [m EXCEPT !.log = Append(@,
        [what |-> what, type |-> what, cache |-> c, item |-> item,
         id |-> m.heap[item].id, listeners |-> <<>>,
         count |-> count(m.heap[c], m.heap[item].id),
         stored |-> cacheGet(m.heap[c], m.heap[item].id),
         held |-> <<>>])]

\* Cache.add with `this._cacheCount[style.id] = 1` for `= count + 1`.
addCountingOnce(m0, c, item) ==
    LET m   == called(m0, c, "add", item)
        id  == m.heap[item].id
        cnt == count(m.heap[c], id)
        m1  == [m EXCEPT !.heap[c] = countSet(@, id, 1)]
        m2  == IF cnt = 0
               THEN emitChange([m1 EXCEPT !.heap[c] = cacheSet(@, id, item)],
                               c, "add", item)
               ELSE m1
    IN  [m |-> m2, ret |-> cacheGet(m2.heap[c], id)]

\* Cache.add with emitChange called before `this._cache[style.id] = style`.
addEmittingFirst(m0, c, item) ==
    LET m   == called(m0, c, "add", item)
        id  == m.heap[item].id
        cnt == count(m.heap[c], id)
        m1  == [m EXCEPT !.heap[c] = countSet(@, id, cnt + 1)]
        m2  == IF cnt = 0
               THEN LET m3 == emitChange(m1, c, "add", item)
                    IN  [m3 EXCEPT !.heap[c] = cacheSet(@, id, item)]
               ELSE m1
    IN  [m |-> m2, ret |-> cacheGet(m2.heap[c], id)]

\* Cache.add with `this._cache[style.id] = style` moved out of the `if`.
addReplacing(m0, c, item) ==
    LET m   == called(m0, c, "add", item)
        id  == m.heap[item].id
        cnt == count(m.heap[c], id)
        m1  == [m EXCEPT !.heap[c] = cacheSet(countSet(@, id, cnt + 1), id, item)]
        m2  == IF cnt = 0 THEN emitChange(m1, c, "add", item) ELSE m1
    IN  [m |-> m2, ret |-> cacheGet(m2.heap[c], id)]

\* Cache.add(style) on the cache at address c: [m, ret].
add(m0, c, item) ==
    LET id == m0.heap[item].id
        cnt == count(m0.heap[c], id)
        counted(m) == [m EXCEPT !.heap[c] = countSet(@, id, cnt + 1)]
        stored(m) == [m EXCEPT !.heap[c] = cacheSet(@, id, item)]
        returned(m) == [m |-> m, ret |-> cacheGet(m.heap[c], id)]
    IN  returned(IF cnt = 0
                 THEN emitChange(stored(counted(called(m0, c, "add", item))),
                                 c, "add", item)
                 ELSE counted(called(m0, c, "add", item)))

\* Cache.remove with `delete this._cache[style.id]` left out.
removeKeeping(m0, c, item) ==
    LET m   == called(m0, c, "remove", item)
        id  == m.heap[item].id
        cnt == count(m.heap[c], id)
    IN  IF id \in DOMAIN m.heap[c].cacheCount /\ cnt > 0
        THEN LET m1 == [m EXCEPT !.heap[c] = countSet(@, id, cnt - 1)]
             IN  IF cnt = 1 THEN emitChange(m1, c, "remove", item) ELSE m1
        ELSE m

\* Cache.remove with emitChange moved out of `if (count === 1)`.
removeEmitting(m0, c, item) ==
    LET m   == called(m0, c, "remove", item)
        id  == m.heap[item].id
        cnt == count(m.heap[c], id)
    IN  IF id \in DOMAIN m.heap[c].cacheCount /\ cnt > 0
        THEN LET m1 == [m EXCEPT !.heap[c] = countSet(@, id, cnt - 1)]
             IN  emitChange(IF cnt = 1 THEN [m1 EXCEPT !.heap[c] = cacheDelete(@, id)]
                            ELSE m1,
                            c, "remove", item)
        ELSE m

\* Cache.remove with `if (count > 0)` left out, the count read as
\* `this._cacheCount[style.id] || 0`.
removeUnguarded(m0, c, item) ==
    LET m   == called(m0, c, "remove", item)
        id  == m.heap[item].id
        cnt == count(m.heap[c], id)
        m1  == [m EXCEPT !.heap[c] = countSet(@, id, cnt - 1)]
    IN  IF cnt = 1
        THEN emitChange([m1 EXCEPT !.heap[c] = cacheDelete(@, id)], c, "remove", item)
        ELSE m1

\* Cache.remove(style) on the cache at address c.
remove(m0, c, item) ==
    LET id  == m0.heap[item].id
        cnt == count(m0.heap[c], id)
        counted(m) == [m EXCEPT !.heap[c] = countSet(@, id, cnt - 1)]
        deleted(m) == [m EXCEPT !.heap[c] = cacheDelete(@, id)]
    IN  IF id \in DOMAIN m0.heap[c].cacheCount /\ cnt > 0
        THEN IF cnt = 1
             THEN emitChange(deleted(counted(called(m0, c, "remove", item))),
                             c, "remove", item)
             ELSE counted(called(m0, c, "remove", item))
        ELSE called(m0, c, "remove", item)

\* `while (len--)` as `if (len)`: one call of remove.
removeOnce(m, c, item, len) == IF len = 0 THEN m ELSE remove(m, c, item)

\* while (len--) this.remove(item)
RECURSIVE removeTimes(_, _, _, _)
removeTimes(m, c, item, len) ==
    IF len = 0 THEN m
    ELSE LET rest(m1) == removeTimes(m1, c, item, len - 1)
         IN  andThen(remove(m, c, item), rest)

\* The loop of Cache.empty over Object.keys(this._cache) as taken at its start.
RECURSIVE emptyKeys(_, _, _)
emptyKeys(m, c, keys) ==
    IF keys = <<>> THEN m
    ELSE LET item == cacheGet(m.heap[c], Head(keys))
             rest(m1) == emptyKeys(m1, c, Tail(keys))
         IN  andThen(removeTimes(m, c, item, count(m.heap[c], m.heap[item].id)), rest)

\* Cache.empty()
empty(m, c) == emptyKeys(m, c, [i \in 1..Len(m.heap[c].cache) |-> m.heap[c].cache[i].id])

\* ------------------------------------------------------------------------
\* Registration
\*
\* A registration in progress r is [m, styleInstances, currentHash]: the
\* machine state and the two variables stylize captures.
\* ------------------------------------------------------------------------

RECURSIVE stylize(_, _, _, _)
RECURSIVE stylizeNested(_, _, _, _)

\* The container and the selector a nested key is compiled in.
nestedContainer(name, container, atRule) == IF isAtRule(name) THEN atRule ELSE container

\* nestedSelector with the at-rule key interpolated like any other key.
nestedSelectorAlways(name, selector) == interpolate(name, selector)

nestedSelector(name, selector) ==
    IF isAtRule(name) THEN selector ELSE interpolate(name, selector)

\* currentHash = hash(selector, currentHash); currentHash = hash(styleString, currentHash)
mixHash(currentHash, selector, styleString) ==
    hash(styleString, hash(selector, currentHash))

\* canonical with the instance passed to add kept, its return value dropped.
passedIn(added, passed) == passed

\* The instance stylize goes on with after `container.add(new ...)`: the one
\* add returned, not the one passed in.
canonical(added, passed) == added.ret

\* stylize with the Selector added as soon as the Style is, under the hash
\* so far, and no styleInstance recorded.
stylizeEager(r, container, styles, selector) ==
    LET parsed      == parseUserStyles(styles)
        styleString == stringifyProperties(parsed.properties)
        m1          == alloc(r.m, newStyle(styleString))
        added       == add(m1, container, Len(m1.heap))
        hashed      == mixHash(r.currentHash, selector, styleString)
        m2          == alloc(added.m,
                             newSelector(interpolate(selector,
                                                     << "." >> \o hashToString(hashed))))
        r1          == [m |-> add(m2, canonical(added, Len(m1.heap)), Len(m2.heap)).m,
                        styleInstances |-> r.styleInstances,
                        currentHash |-> hashed]
        rest(r2)    == stylizeNested(r2, container, parsed.nestedStyles, selector)
    IN  andThen(r1, rest)

\* stylize(container, styles, selector)
stylize(r, container, styles, selector) ==
    LET parsed      == parseUserStyles(styles)
        styleString == stringifyProperties(parsed.properties)
        pushed(added, style) ==
            [m |-> added.m,
             styleInstances |->
                 Append(r.styleInstances,
                        [selector |-> selector, style |-> canonical(added, style)]),
             currentHash |-> mixHash(r.currentHash, selector, styleString)]
        created(m1) == pushed(add(m1, container, Len(m1.heap)), Len(m1.heap))
        rest(r2)    == stylizeNested(r2, container, parsed.nestedStyles, selector)
    IN  andThen(created(alloc(r.m, newStyle(styleString))), rest)

\* for (const [name, value] of nestedStyles) ...
stylizeNested(r, container, nestedStyles, selector) ==
    IF nestedStyles = <<>> THEN r
    ELSE LET name  == Head(nestedStyles).key
             value == Head(nestedStyles).value
             entered(added, atRule) ==
                 stylize([r EXCEPT !.m = added.m],
                         nestedContainer(name, container, canonical(added, atRule)),
                         value, nestedSelector(name, selector))
             created(m1) == entered(add(m1, container, Len(m1.heap)), Len(m1.heap))
             r1 == IF isAtRule(name)
                   THEN created(alloc(r.m, newAtRule(name)))
                   ELSE stylize(r, nestedContainer(name, container, NoRef),
                                value, nestedSelector(name, selector))
             rest(r2) == stylizeNested(r2, container, Tail(nestedStyles), selector)
         IN  andThen(r1, rest)

\* addSelectors with the loop left after its first round.
addSelectorsFirst(m, styleInstances, currentSelector) ==
    IF styleInstances = <<>> THEN m
    ELSE LET inst == Head(styleInstances)
             m1   == alloc(m, newSelector(interpolate(inst.selector, currentSelector)))
         IN  add(m1, inst.style, Len(m1.heap)).m

\* for (const [selector, style] of styleInstances) style.add(new Selector(...))
RECURSIVE addSelectors(_, _, _)
addSelectors(m, styleInstances, currentSelector) ==
    IF styleInstances = <<>> THEN m
    ELSE LET inst == Head(styleInstances)
             m1   == alloc(m, newSelector(interpolate(inst.selector, currentSelector)))
             rest(m2) == addSelectors(m2, Tail(styleInstances), currentSelector)
         IN  andThen(add(m1, inst.style, Len(m1.heap)).m, rest)

\* The running hash of a registration starts at 0.
initialHash == Zero

\* registerUserStyles with the running hash started from the id of the
\* container, not from 0.
registerUserStylesSeeded(m, container, styles) ==
    LET r == stylize([m |-> m, styleInstances |-> <<>>,
                      currentHash |-> hash(m.heap[container].id, undefined)],
                     container, styles, << "&" >>)
        currentClassName == hashToString(r.currentHash)
        currentSelector  == << "." >> \o currentClassName
        done(r1) == [m   |-> addSelectors(r1.m, r1.styleInstances, currentSelector),
                     ret |-> currentClassName]
    IN  andThen(r, done)

\* registerUserStyles with the styles registered in the first FreeStyle
\* instance created, whatever the container.
registerUserStylesGlobal(m, container, styles) ==
    LET done(r) ==
            LET currentClassName == hashToString(r.currentHash)
                currentSelector  == << "." >> \o currentClassName
            IN  [m   |-> addSelectors(r.m, r.styleInstances, currentSelector),
                 ret |-> currentClassName]
    IN  andThen(stylize([m |-> m, styleInstances |-> <<>>, currentHash |-> initialHash],
                        1, styles, << "&" >>),
                done)

\* registerUserStyles(container, styles): [m, ret], ret the class name.
registerUserStyles(m, container, styles) ==
    LET done(r) ==
            LET currentClassName == hashToString(r.currentHash)
                currentSelector  == << "." >> \o currentClassName
            IN  [m   |-> addSelectors(r.m, r.styleInstances, currentSelector),
                 ret |-> currentClassName]
    IN  andThen(stylize([m |-> m, styleInstances |-> <<>>, currentHash |-> initialHash],
                        container, styles, << "&" >>),
                done)

\* ------------------------------------------------------------------------
\* The inputs
\* ------------------------------------------------------------------------

color == << "c", "o", "l", "o", "r" >>
top   == << "t", "o", "p" >>
red   == << "r", "e", "d" >>
blue  == << "b", "l", "u", "e" >>
zero  == << "0" >>
media == << "@", "m", "e", "d", "i", "a", " ", "p", "r", "i", "n", "t" >>
hover == << "&", ":", "h", "o", "v", "e", "r" >>
dotA  == << ".", "a" >>

\* The style trees registered.
Trees ==
    << \* 1: { top: '0', color: 'red' }
       Obj(<< KV(top, Str(zero)), KV(color, Str(red)) >>),
       \* 2: { color: 'red', top: '0' }
       Obj(<< KV(color, Str(red)), KV(top, Str(zero)) >>),
       \* 3: { '@media print': { color: 'red' } }
       Obj(<< KV(media, Obj(<< KV(color, Str(red)) >>)) >>),
       \* 4: { '@media print': { color: 'blue' } }
       Obj(<< KV(media, Obj(<< KV(color, Str(blue)) >>)) >>),
       \* 5: { color: 'red', '@media print': { top: '0', '.a': { color: 'blue' } },
       \*      '&:hover': { color: 'blue' } }
       Obj(<< KV(color, Str(red)),
              KV(media, Obj(<< KV(top, Str(zero)),
                               KV(dotA, Obj(<< KV(color, Str(blue)) >>)) >>)),
              KV(hover, Obj(<< KV(color, Str(blue)) >>)) >>),
       \* 6: { '&:hover': { color: 'blue' },
       \*      '@media print': { '.a': { color: 'blue' }, top: '0' }, color: 'red' }
       Obj(<< KV(hover, Obj(<< KV(color, Str(blue)) >>)),
              KV(media, Obj(<< KV(dotA, Obj(<< KV(color, Str(blue)) >>)),
                               KV(top, Str(zero)) >>)),
              KV(color, Str(red)) >>),
       \* 7: { color: 'red', '.a': { color: 'red' } }
       Obj(<< KV(color, Str(red)), KV(dotA, Obj(<< KV(color, Str(red)) >>)) >>) >>

\* "<selector>{<declarations>}"
Rule(selector, declarations) == selector \o << "{" >> \o declarations \o << "}" >>

\* "<name>:<value>;"
Decl(name, value) == name \o << ":" >> \o value \o << ";" >>

\* ".<className>"
Class(name) == << "." >> \o name

\* The declaration texts of the Style objects created outside registerStyle.
UserStyles == << stringifyProperties(<< KV(color, Str(red)) >>) >>

\* ------------------------------------------------------------------------
\* The state machine
\* ------------------------------------------------------------------------

\* The most FreeStyle instances created.
MaxRoots == 2

\* The most calls made.
MaxOps == 3

\* The most calls made on a FreeStyle instance that is listened to.
MaxCalls == 4

\* The most calls made on two FreeStyle instances that share objects.
MaxShared == 3

VARIABLES
    id,     \* the counter of FreeStyle instances (`let id = 0`)
    heap,   \* the objects
    log,    \* the calls and events of the last call made
    last,   \* the last call made: [op, target, item, tree, ret, name]
    prev,   \* the call made before it
    pre,    \* the objects as they were before the last call
    ops,    \* the number of calls made
    direct, \* the number of them that were add, remove or empty
    names,  \* per tree, its first registration: [name, root, at], or NoName
    tally,  \* per cache and item, the calls of add, and the calls of remove
            \* that found an entry: [adds, removes]
    input,  \* the function called on its own and its arguments: [fn, args]
    output  \* what it returned

vars == << id, heap, log, last, prev, pre, ops, direct, names, tally, input, output >>

\* No function is called on its own, and none has returned.
NoInput == [fn |-> "none", args |-> <<>>]

NoOutput == [returned |-> FALSE]

\* A call: op on the cache at target, of the item at address item or of the
\* tree Trees[tree]; ret is the address returned and name the class name.
call(op, target, item, tree, ret, name) ==
    [op |-> op, target |-> target, item |-> item, tree |-> tree, ret |-> ret, name |-> name]

NoCall == call("none", NoRef, NoRef, 0, NoRef, <<>>)

\* A call of addChangeListener or removeChangeListener with the listener fn.
listenerCall(op, target, fn) ==
    [op |-> op, target |-> target, item |-> NoRef, tree |-> 0, ret |-> NoRef,
     name |-> <<>>, fn |-> fn]

\* The FreeStyle instances.
Roots(h) == {a \in 1..Len(h) : h[a].kind = "FreeStyle"}

\* The objects a caller can hold: what values() of a FreeStyle instance lists.
Held(h) == UNION {{h[r].cache[i].ref : i \in 1..Len(h[r].cache)} : r \in Roots(h)}

\* The objects reached from the object at a through the entries of caches.
RECURSIVE ReachAll(_, _)
ReachAll(h, S) ==
    LET held == UNION {{h[a].cache[i].ref : i \in 1..Len(h[a].cache)} : a \in S}
    IN  IF held \subseteq S THEN S ELSE ReachAll(h, S \cup held)

Reach(h, a) == ReachAll(h, {a})

NoName == [name |-> <<>>, root |-> NoRef, at |-> 0]

\* The key of tally for a log entry: the cache, and the kind, the text and
\* the id of the item.
tallyKey(h, e) == << e.cache, h[e.item].kind, h[e.item].text, h[e.item].id >>

tallyOf(t, key) == IF key \in DOMAIN t THEN t[key] ELSE [adds |-> 0, removes |-> 0]

\* tally after the calls of a log.
RECURSIVE tallied(_, _, _)
tallied(t, h, entries) ==
    IF entries = <<>> THEN t
    ELSE LET e   == Head(entries)
             key == tallyKey(h, e)
             old == tallyOf(t, key)
             new == CASE e.what = "add" -> [old EXCEPT !.adds = @ + 1]
                      [] e.what = "remove" /\ e.stored # NoRef ->
                             [old EXCEPT !.removes = @ + 1]
                      [] OTHER -> old
             rest(t1) == tallied(t1, h, Tail(entries))
         IN  andThen([k \in (DOMAIN t) \cup {key} |-> IF k = key THEN new ELSE t[k]],
                     rest)

\* The module is loaded and create() is called once.
Loaded ==
    /\ id = 1
    /\ heap = << newFreeStyle(1) >>
    /\ log = <<>>
    /\ last = NoCall
    /\ prev = NoCall
    /\ pre = heap
    /\ ops = 0
    /\ direct = 0
    /\ names = [t \in 1..Len(Trees) |-> NoName]
    /\ tally = <<>>

Init == Loaded /\ input = NoInput /\ output = NoOutput

\* The objects, the log and the records after a call that took the objects
\* from heap to m.heap.
Recorded(m, c) ==
    /\ ops' = ops + 1
    /\ heap' = m.heap
    /\ log' = m.log
    /\ prev' = last
    /\ last' = c
    /\ pre' = heap
    /\ direct' = IF c.op \in {"add", "remove", "empty"} THEN direct + 1 ELSE direct
    /\ names' = IF c.op = "registerStyle" /\ c.tree \in DOMAIN names
                     /\ names[c.tree] = NoName
                THEN [names EXCEPT ![c.tree] =
                         [name |-> c.name, root |-> c.target, at |-> ops + 1]]
                ELSE names
    /\ tally' = tallied(tally, m.heap, m.log)

\* The state after a call that took the objects from heap to m.heap.
Returned(m, c) == Recorded(m, c) /\ UNCHANGED << input, output >>

Step(m, c) == ops < MaxOps /\ Returned(m, c)

\* The same for a call on a FreeStyle instance that is listened to.
Heard(m, c) == ops < MaxCalls /\ Returned(m, c)

\* The same for a call on one of two FreeStyle instances.
Shared(m, c) == ops < MaxShared /\ Returned(m, c)

start == [heap |-> heap, log |-> <<>>]

\* create()
Create ==
    /\ id < MaxRoots
    /\ id' = id + 1
    /\ LET m == alloc(start, newFreeStyle(id + 1))
       IN  Step(m, call("create", NoRef, NoRef, 0, Len(m.heap), <<>>))

\* root.registerStyle(Trees[t])
RegisterStyle(root, t) ==
    /\ LET done == registerUserStyles(start, root, Trees[t])
       IN  Step(done.m, call("registerStyle", root, NoRef, t, NoRef, done.ret))
    /\ UNCHANGED id

\* root.add(item) for an object the caller holds
Add(root, item) ==
    /\ LET done == add(start, root, item)
       IN  Step(done.m, call("add", root, item, 0, done.ret, <<>>))
    /\ UNCHANGED id

\* root.add(new Style(UserStyles[u]))
AddNew(root, u) ==
    /\ LET m1   == alloc(start, newStyle(UserStyles[u]))
           done == add(m1, root, Len(m1.heap))
       IN  Step(done.m, call("add", root, Len(m1.heap), 0, done.ret, <<>>))
    /\ UNCHANGED id

\* root.remove(item) for an object the caller holds
Remove(root, item) ==
    /\ Step(remove(start, root, item), call("remove", root, item, 0, NoRef, <<>>))
    /\ UNCHANGED id

\* root.remove(new Style(UserStyles[u]))
RemoveNew(root, u) ==
    /\ LET m1 == alloc(start, newStyle(UserStyles[u]))
       IN  Step(remove(m1, root, Len(m1.heap)),
                call("remove", root, Len(m1.heap), 0, NoRef, <<>>))
    /\ UNCHANGED id

\* root.empty()
Empty(root) ==
    /\ Step(empty(start, root), call("empty", root, NoRef, 0, NoRef, <<>>))
    /\ UNCHANGED id

Next ==
    \/ Create
    \/ \E root \in Roots(heap), t \in 1..Len(Trees) : RegisterStyle(root, t)
    \/ \E root \in Roots(heap), item \in Held(heap) : Add(root, item)
    \/ \E root \in Roots(heap), u \in 1..Len(UserStyles) : AddNew(root, u)
    \/ \E root \in Roots(heap), item \in Held(heap) : Remove(root, item)
    \/ \E root \in Roots(heap), u \in 1..Len(UserStyles) : RemoveNew(root, u)
    \/ \E root \in Roots(heap) : Empty(root)

Spec == Init /\ [][Next]_vars

\* ------------------------------------------------------------------------
\* The state machine of a FreeStyle instance with change listeners
\* ------------------------------------------------------------------------

\* The trees registered while listeners are present.
ListenTrees == {3, 7}

\* root.addChangeListener(fn)
AddChangeListener(root, fn) ==
    /\ Heard(addChangeListener(start, root, fn),
             listenerCall("addChangeListener", root, fn))
    /\ UNCHANGED id

\* root.removeChangeListener(fn)
RemoveChangeListener(root, fn) ==
    /\ Heard(removeChangeListener(start, root, fn),
             listenerCall("removeChangeListener", root, fn))
    /\ UNCHANGED id

\* root.registerStyle(Trees[t])
HeardRegisterStyle(root, t) ==
    /\ LET done == registerUserStyles(start, root, Trees[t])
       IN  Heard(done.m, call("registerStyle", root, NoRef, t, NoRef, done.ret))
    /\ UNCHANGED id

\* root.add(item) for an object the caller holds
HeardAdd(root, item) ==
    /\ LET done == add(start, root, item)
       IN  Heard(done.m, call("add", root, item, 0, done.ret, <<>>))
    /\ UNCHANGED id

\* root.remove(item) for an object the caller holds
HeardRemove(root, item) ==
    /\ Heard(remove(start, root, item), call("remove", root, item, 0, NoRef, <<>>))
    /\ UNCHANGED id

\* root.empty()
HeardEmpty(root) ==
    /\ Heard(empty(start, root), call("empty", root, NoRef, 0, NoRef, <<>>))
    /\ UNCHANGED id

\* The event types passed to emitChange.
EventTypes == {"add", "remove"}

\* root.emitChange(type, item) for an object the caller holds: the listeners
\* are called, and no count is read or written.
HeardEmitChange(root, type, item) ==
    /\ Heard(emitChange(start, root, type, item),
             call("emitChange", root, item, 0, NoRef, <<>>))
    /\ UNCHANGED id

\* root.emitChange(type, new Style(UserStyles[u]))
HeardEmitChangeNew(root, type, u) ==
    /\ LET m1 == alloc(start, newStyle(UserStyles[u]))
       IN  Heard(emitChange(m1, root, type, Len(m1.heap)),
                 call("emitChange", root, Len(m1.heap), 0, NoRef, <<>>))
    /\ UNCHANGED id

ListenNext ==
    \/ \E root \in Roots(heap), fn \in Listeners : AddChangeListener(root, fn)
    \/ \E root \in Roots(heap), fn \in Listeners : RemoveChangeListener(root, fn)
    \/ \E root \in Roots(heap), t \in ListenTrees : HeardRegisterStyle(root, t)
    \/ \E root \in Roots(heap), item \in Held(heap) : HeardAdd(root, item)
    \/ \E root \in Roots(heap), item \in Held(heap) : HeardRemove(root, item)
    \/ \E root \in Roots(heap) : HeardEmpty(root)
    \/ \E root \in Roots(heap), type \in EventTypes, item \in Held(heap) :
           HeardEmitChange(root, type, item)
    \/ \E root \in Roots(heap), type \in EventTypes, u \in 1..Len(UserStyles) :
           HeardEmitChangeNew(root, type, u)

ListenSpec == Init /\ [][ListenNext]_vars

\* ------------------------------------------------------------------------
\* The state machine of two FreeStyle instances whose callers pass the
\* objects of one to the other
\* ------------------------------------------------------------------------

\* The trees registered on the two instances.
SharedTrees == {3, 4}

\* The module is loaded and create() is called twice.
LoadedTwice ==
    /\ id = 2
    /\ heap = << newFreeStyle(1), newFreeStyle(2) >>
    /\ log = <<>>
    /\ last = NoCall
    /\ prev = NoCall
    /\ pre = heap
    /\ ops = 0
    /\ direct = 0
    /\ names = [t \in 1..Len(Trees) |-> NoName]
    /\ tally = <<>>
    /\ input = NoInput
    /\ output = NoOutput

\* A call of getStyles and the text it returned.
stylesCall(target, styles) ==
    [op |-> "getStyles", target |-> target, item |-> NoRef, tree |-> 0, ret |-> NoRef,
     name |-> <<>>, styles |-> styles]

\* root.getStyles(): values(), map and join build new values and assign to
\* no field; the call returns the text, or throws RangeError.
GetStyles(root) ==
    /\ Shared(start, stylesCall(root, getStyles(heap, root)))
    /\ UNCHANGED id

\* root.registerStyle(Trees[t])
SharedRegisterStyle(root, t) ==
    /\ LET done == registerUserStyles(start, root, Trees[t])
       IN  Shared(done.m, call("registerStyle", root, NoRef, t, NoRef, done.ret))
    /\ UNCHANGED id

\* root.add(item) for an object either instance holds
SharedAdd(root, item) ==
    /\ LET done == add(start, root, item)
       IN  Shared(done.m, call("add", root, item, 0, done.ret, <<>>))
    /\ UNCHANGED id

\* root.add(other) for a FreeStyle instance, a Container as well: the other
\* one, or root itself
SharedAddRoot(root, other) ==
    /\ LET done == add(start, root, other)
       IN  Shared(done.m, call("add", root, other, 0, done.ret, <<>>))
    /\ UNCHANGED id

\* root.remove(item) for an object either instance holds
SharedRemove(root, item) ==
    /\ Shared(remove(start, root, item), call("remove", root, item, 0, NoRef, <<>>))
    /\ UNCHANGED id

\* root.empty()
SharedEmpty(root) ==
    /\ Shared(empty(start, root), call("empty", root, NoRef, 0, NoRef, <<>>))
    /\ UNCHANGED id

\* root.addChangeListener(log)
SharedAddChangeListener(root) ==
    /\ Shared(addChangeListener(start, root, "log"),
              listenerCall("addChangeListener", root, "log"))
    /\ UNCHANGED id

RootsNext ==
    \/ \E root \in Roots(heap), t \in SharedTrees : SharedRegisterStyle(root, t)
    \/ \E root \in Roots(heap), item \in Held(heap) : SharedAdd(root, item)
    \/ \E root \in Roots(heap), other \in Roots(heap) : SharedAddRoot(root, other)
    \/ \E root \in Roots(heap), item \in Held(heap) : SharedRemove(root, item)
    \/ \E root \in Roots(heap) : SharedEmpty(root)
    \/ \E root \in Roots(heap) : SharedAddChangeListener(root)
    \/ \E root \in Roots(heap) : GetStyles(root)

RootsSpec == LoadedTwice /\ [][RootsNext]_vars

\* ------------------------------------------------------------------------
\* The functions called on their own
\* ------------------------------------------------------------------------

\* The longest array given as the value of a property.
MaxItems == 3

\* The strings hashed: the empty string, texts that registerUserStyles
\* hashes, and two strings whose hash is 0.
HashStrings ==
    { <<>>, << "&" >>, << "a" >>, Decl(color, red),
      << "+", "!", "=", "y", "G" >>, << "e", "S", "N", ".", "1" >> }

\* The keys interpolated.
Keys == { hover, dotA, << "&", " ", "&" >>, << "a", "&", "b" >> }

\* The attribute selector [a='$'].
attribute == << "[", "a", "=", "'", "$", "'", "]" >>

\* The parent selectors: a class, the selector of a layer under '.a', and
\* selectors that hold a dollar: the selector of a layer under [a='$'],
\* [a$=b], "$&" and "x$$".
Parents ==
    { << ".", "n" >>, << "&", " " >> \o dotA,
      << "&", " " >> \o attribute, << "[", "a", "$", "=", "b", "]" >>,
      << "$", "&" >>, << "x", "$", "$" >> }

\* The arrays of at most n strings and nulls.
RECURSIVE Arrays(_)
Arrays(n) ==
    IF n = 0 THEN { <<>> }
    ELSE Arrays(n - 1)
             \cup { Append(a, v) : a \in {b \in Arrays(n - 1) : Len(b) = n - 1},
                                   v \in { Str(red), Str(blue), Null } }

\* The values of a property.
PropertyValues == { Str(red), Null } \cup { Arr(a) : a \in Arrays(MaxItems) }

\* The values of color in the trees whose class name is computed: the text
\* "&color:upsqacsa;" has the hash 0.
Colors == { red, blue, << "u", "p", "s", "q", "a", "c", "s", "a" >> }

\* { color: value, '.a': { color: 'red' } }
layered(value) ==
    Obj(<< KV(color, Str(value)), KV(dotA, Obj(<< KV(color, Str(red)) >>)) >>)

Inputs ==
    [fn : {"hash"}, args : HashStrings \X HashStrings]
        \cup [fn : {"registerStyle"}, args : {<< v >> : v \in Colors}]
        \cup [fn : {"interpolate"}, args : Keys \X Parents]
        \cup [fn : {"stringifyProperties"}, args : PropertyValues \X { Str(zero), Null }]

PureInit == Loaded /\ input \in Inputs /\ output = NoOutput

main == << id, heap, log, last, prev, pre, ops, direct, names, tally >>

\* hash(b, hash(a)): the hash of a seeds the hash of b.
Hash ==
    /\ input.fn = "hash" /\ ~output.returned
    /\ output' = [returned |-> TRUE,
                  seed  |-> hash(input.args[1], undefined),
                  value |-> hash(input.args[2], hash(input.args[1], undefined))]
    /\ UNCHANGED << main, input >>

\* interpolate(key, parent)
Interpolate ==
    /\ input.fn = "interpolate" /\ ~output.returned
    /\ output' = [returned |-> TRUE,
                  value |-> interpolate(input.args[1], input.args[2])]
    /\ UNCHANGED << main, input >>

\* stringifyProperties([['color', v], ['top', w]])
StringifyProperties ==
    /\ input.fn = "stringifyProperties" /\ ~output.returned
    /\ output' = [returned |-> TRUE,
                  value |-> stringifyProperties(<< KV(color, input.args[1]),
                                                   KV(top, input.args[2]) >>)]
    /\ UNCHANGED << main, input >>

\* root.registerStyle({ color: value, '.a': { color: 'red' } }) on the
\* instance create() returned: the Styles and Selectors are stored, and the
\* class name is returned.
ClassName ==
    /\ input.fn = "registerStyle" /\ ~output.returned
    /\ \E root \in Roots(heap) :
           LET done == registerUserStyles(start, root, layered(input.args[1]))
           IN  /\ Recorded(done.m, call("registerStyle", root, NoRef, 0, NoRef, done.ret))
               /\ output' = [returned |-> TRUE, value |-> done.ret]
    /\ UNCHANGED << id, input >>

PureNext == Hash \/ Interpolate \/ StringifyProperties \/ ClassName

PureSpec == PureInit /\ [][PureNext]_vars

\* ------------------------------------------------------------------------
\* Properties
\* ------------------------------------------------------------------------

\* Two values hold the same content: the same scalars, the same arrays, and
\* objects with the same keys holding the same content, in whatever order.
RECURSIVE SameContent(_, _)
SameContent(a, b) ==
    /\ a.type = b.type
    /\ CASE a.type = "string" -> a.str = b.str
         [] a.type = "null" -> TRUE
         [] a.type = "array" ->
                /\ Len(a.items) = Len(b.items)
                /\ \A i \in 1..Len(a.items) : SameContent(a.items[i], b.items[i])
         [] a.type = "object" ->
                /\ Len(a.entries) = Len(b.entries)
                /\ \A i \in 1..Len(a.entries) :
                       \E j \in 1..Len(b.entries) :
                           /\ a.entries[i].key = b.entries[j].key
                           /\ SameContent(a.entries[i].value, b.entries[j].value)

\* The last two calls registered trees of the same content on one FreeStyle
\* instance.
RegisteredTwice ==
    /\ prev.op = "registerStyle"
    /\ last.op = "registerStyle"
    /\ prev.target = last.target
    /\ SameContent(Trees[prev.tree], Trees[last.tree])

\* C1: registering, on one root, two trees that hold the same content with
\* their keys in different orders returns the same class name twice, and
\* getStyles() after the second registration is getStyles() after the first.
C1_KeyOrderIrrelevant ==
    RegisteredTwice =>
        /\ last.name = prev.name
        /\ getStyles(heap, last.target) = getStyles(pre, last.target)

\* C1 happens: the two trees differ in key order at the top and in a nested
\* layer, and a rule with a nested at-rule is rendered.
C1_Witness ==
    /\ RegisteredTwice
    /\ Trees[prev.tree].entries[1].key # Trees[last.tree].entries[1].key
    /\ \E i \in 1..Len(Trees[prev.tree].entries) :
           isAtRule(Trees[prev.tree].entries[i].key)
    /\ getStyles(heap, last.target) # <<>>

\* C2: registerStyle(T) returns the class name the first registration of T
\* returned, on whichever root and after whatever calls.
C2_NameFromTreeAlone ==
    last.op = "registerStyle" => last.name = names[last.tree].name

\* C2 happens: T is registered again after its first registration was
\* undone by empty(), which removed what that registration had added.
C2_Witness ==
    /\ last.op = "registerStyle"
    /\ prev.op = "empty"
    /\ prev.target = last.target
    /\ names[last.tree].at = ops - 2
    /\ Len(pre[last.target].cache) = 0
    /\ \E k \in DOMAIN tally : k[1] = last.target /\ tally[k].removes > 0

\* The ids a cache has counted or stored.
KnownIds(obj) == (DOMAIN obj.cacheCount) \cup {obj.cache[i].id : i \in 1..Len(obj.cache)}

\* C3: in every cache an entry is stored under an id exactly when the count
\* of the id is above 0, and no count is negative.
C3_EntryIffCounted ==
    \A a \in 1..Len(heap) :
        \A i \in KnownIds(heap[a]) :
            /\ count(heap[a], i) >= 0
            /\ (cacheGet(heap[a], i) # NoRef) <=> (count(heap[a], i) > 0)

\* C3 happens: after add, remove and empty, one cache has an id counted down
\* to 0 and an id counted twice.
C3_Witness ==
    \E a \in 1..Len(heap) :
        /\ \E i \in KnownIds(heap[a]) : count(heap[a], i) = 0
        /\ \E i \in KnownIds(heap[a]) : count(heap[a], i) >= 2
        /\ direct >= 2

\* The id of the item of a key.
idOf(k) == k[4]

\* C4: for every cache and item, count(item) is the number of calls of add
\* less the number of calls of remove that found the item present, and
\* has(item) holds exactly while that number is positive; so an item added k
\* times is evicted by the k-th such remove and not before.
C4_CountIsAddsLessRemoves ==
    \A k \in DOMAIN tally :
        LET c == heap[k[1]]
            n == tally[k].adds - tally[k].removes
        IN  /\ count(c, idOf(k)) = n
            /\ has(c, idOf(k)) <=> (n > 0)
            /\ (cacheGet(c, idOf(k)) # NoRef) <=> (n > 0)

\* C4 happens: an item added twice was present, counted once, after one
\* remove, and the second remove has evicted it.
C4_Witness ==
    /\ last.op = "remove"
    /\ prev.op = "remove"
    /\ prev.target = last.target
    /\ LET k == tallyKey(heap, [cache |-> last.target, item |-> last.item])
       IN  /\ k \in DOMAIN tally
           /\ tally[k].adds = 2
           /\ tally[k].removes = 2
           /\ count(pre[last.target], idOf(k)) = 1
           /\ cacheGet(pre[last.target], idOf(k)) # NoRef
           /\ ~has(heap[last.target], idOf(k))
           /\ cacheGet(heap[last.target], idOf(k)) = NoRef

\* The last call was add(item) on a cache that held an entry of item's id.
AddedAgain ==
    /\ last.op = "add"
    /\ cacheGet(pre[last.target], heap[last.item].id) # NoRef

\* C5: add(item), called while an entry of item's id is present, returns the
\* instance stored and leaves it stored and unchanged; and over every call
\* the instance stored under an id whose count stays above 0 stays the same.
C5_AddReturnsStored ==
    /\ AddedAgain =>
           LET stored == cacheGet(pre[last.target], heap[last.item].id)
           IN  /\ last.ret = stored
               /\ cacheGet(heap[last.target], heap[last.item].id) = stored
               /\ heap[stored] = pre[stored]
    /\ \A a \in 1..Len(pre) :
           \A i \in KnownIds(pre[a]) :
               (count(pre[a], i) > 0 /\ count(heap[a], i) > 0) =>
                   cacheGet(heap[a], i) = cacheGet(pre[a], i)

\* C5 happens: the instance passed to add is not the instance stored.
C5_Witness ==
    /\ AddedAgain
    /\ last.item # cacheGet(pre[last.target], heap[last.item].id)
    /\ heap[last.item].id = heap[last.ret].id
    /\ count(heap[last.target], heap[last.item].id) = 2

\* The entry of the log after the i-th is the event of the i-th, a call.
EventFollows(i) ==
    /\ i < Len(log)
    /\ log[i + 1].what = "emit"
    /\ log[i + 1].type = log[i].what
    /\ log[i + 1].cache = log[i].cache
    /\ log[i + 1].id = log[i].id

\* C6: a call of add emits "add" exactly when it found the count 0 and left
\* it 1, a call of remove emits "remove" exactly when it found the count 1
\* and left it 0, and no other event is emitted.
C6_EventsAtFirstAndLast ==
    \A i \in 1..Len(log) :
        /\ log[i].what = "add" =>
               (EventFollows(i) <=> log[i].count = 0)
        /\ log[i].what = "remove" =>
               (EventFollows(i) <=> log[i].count = 1)
        /\ log[i].what = "emit" =>
               /\ i > 1
               /\ log[i - 1].what \in {"add", "remove"}
               /\ EventFollows(i - 1)
               /\ log[i].count = (IF log[i].type = "add" THEN 1 ELSE 0)

\* C6 happens: a call of empty() holds a remove that found an item added
\* twice counted 2 and emitted nothing, and the remove that found it counted
\* 1 and emitted "remove".
C6_Witness ==
    /\ last.op = "empty"
    /\ \E i \in 1..Len(log) :
           /\ log[i].what = "remove" /\ log[i].count = 2 /\ ~EventFollows(i)
           /\ i + 2 <= Len(log)
           /\ log[i + 1].what = "remove" /\ log[i + 1].count = 1 /\ EventFollows(i + 1)
           /\ log[i + 1].id = log[i].id
           /\ tally[tallyKey(heap, log[i])].adds = 2

\* The last call was remove(item) on a cache holding no entry of item's id.
RemovedAbsent ==
    /\ last.op = "remove"
    /\ ~has(pre[last.target], heap[last.item].id)

\* C7: remove(item) for an item whose id is not present emits no event and
\* leaves every object, with the entries and the counts of its cache, as it
\* was.
C7_RemoveAbsentNoOp ==
    RemovedAbsent =>
        /\ \A i \in 1..Len(log) : log[i].what # "emit"
        /\ \A a \in 1..Len(pre) : heap[a] = pre[a]

\* C7 happens: the cache holds other entries, and the id was never added to
\* it or was added and removed.
C7_Witness ==
    /\ RemovedAbsent
    /\ Len(pre[last.target].cache) > 0
    /\ Len(log) = 1

\* The ids of the events of the log, in order.
RECURSIVE EmittedIds(_, _)
EmittedIds(entries, type) ==
    IF entries = <<>> THEN <<>>
    ELSE (IF Head(entries).what = "emit" /\ Head(entries).type = type
          THEN << Head(entries).id >> ELSE <<>>)
             \o EmittedIds(Tail(entries), type)

\* C8: when empty() returns, values() is empty and every count is 0, and the
\* call has emitted one "remove" for each entry that was present, and no
\* other event.
C8_EmptyDrains ==
    last.op = "empty" =>
        /\ values(heap[last.target]) = <<>>
        /\ \A i \in KnownIds(heap[last.target]) : count(heap[last.target], i) = 0
        /\ EmittedIds(log, "remove") =
               [i \in 1..Len(pre[last.target].cache) |-> pre[last.target].cache[i].id]
        /\ EmittedIds(log, "add") = <<>>

\* C8 happens: the cache emptied held several entries, one counted twice.
C8_Witness ==
    /\ last.op = "empty"
    /\ Len(pre[last.target].cache) >= 2
    /\ \E i \in KnownIds(pre[last.target]) : count(pre[last.target], i) >= 2
    /\ \E i \in KnownIds(pre[last.target]) : count(pre[last.target], i) = 1

\* The objects that hold Styles and AtRules.
Containers(h) == {a \in 1..Len(h) : h[a].kind \in {"FreeStyle", "AtRule"}}

\* Only registerStyle has been called on the FreeStyle instances so far.
OnlyRegistered == direct = 0

\* The last two calls registered Trees[a] and then Trees[b] on one root that
\* held nothing before.
RegisteredInTurn(a, b) ==
    /\ ops = 2
    /\ prev.op = "registerStyle" /\ prev.tree = a
    /\ last.op = "registerStyle" /\ last.tree = b
    /\ prev.target = last.target

\* C9: registrations that hold the same at-rule text as a key share one
\* AtRule entry of the container: no container holds two AtRules of one
\* text; while only registerStyle is called the count of the entry is the
\* number of times the key was traversed, and every add made in an AtRule is
\* made in one that a container holds; and after { '@media print': { color:
\* 'red' } } and { '@media print': { color: 'blue' } }, in either order,
\* getStyles() is one block holding the two rules in the order registered.
C9_AtRulesMerge ==
    /\ \A a \in Containers(heap) :
           \A i, j \in 1..Len(heap[a].cache) :
               LET x == heap[heap[a].cache[i].ref]
                   y == heap[heap[a].cache[j].ref]
               IN  (x.kind = "AtRule" /\ y.kind = "AtRule" /\ x.text = y.text) => i = j
    /\ OnlyRegistered =>
           /\ \A k \in DOMAIN tally :
                  k[2] = "AtRule" =>
                      /\ count(heap[k[1]], idOf(k)) = tally[k].adds
                      /\ heap[cacheGet(heap[k[1]], idOf(k))].text = k[3]
           /\ \A i \in 1..Len(log) :
                  (log[i].what = "add" /\ heap[log[i].cache].kind = "AtRule") =>
                      \E a \in Containers(heap) :
                          cacheGet(heap[a], heap[log[i].cache].id) = log[i].cache
    /\ \A a, b \in {3, 4} :
           (a # b /\ RegisteredInTurn(a, b)) =>
               getStyles(heap, last.target) =
                   media \o << "{" >>
                       \o Rule(Class(prev.name),
                               stringifyProperties(Trees[a].entries[1].value.entries))
                       \o Rule(Class(last.name),
                               stringifyProperties(Trees[b].entries[1].value.entries))
                       \o << "}" >>

\* C9 happens: the two trees were registered in turn, and the root holds one
\* AtRule, counted twice, that holds two Styles.
C9_Witness ==
    /\ RegisteredInTurn(4, 3)
    /\ \E i \in 1..Len(heap[last.target].cache) :
           LET e == heap[last.target].cache[i]
           IN  /\ heap[e.ref].kind = "AtRule"
               /\ count(heap[last.target], e.id) = 2
               /\ Len(heap[e.ref].cache) = 2

\* What getStyles() gives after trees 5 and 6 are registered under the class
\* name n, on a root that held nothing:
\*   .n{color:red;}.n:hover{color:blue;}@media print{.n{top:0;}.n .a{color:blue;}}
NestedRendering(n) ==
    Rule(Class(n), Decl(color, red))
        \o Rule(Class(n) \o << ":", "h", "o", "v", "e", "r" >>, Decl(color, blue))
        \o media \o << "{" >>
        \o Rule(Class(n), Decl(top, zero))
        \o Rule(Class(n) \o << " ", ".", "a" >>, Decl(color, blue))
        \o << "}" >>

\* The last call registered Trees[t] on a root that held nothing.
RegisteredFirst(t) ==
    /\ last.op = "registerStyle"
    /\ last.tree = t
    /\ pre[last.target].cache = <<>>

\* C10: a nested at-rule key changes the container and keeps the selector, a
\* nested key that is no at-rule changes the selector and keeps the
\* container: of tree 5 (and 6), the body of '@media print' is a rule of the
\* AtRule under the class selector, its '.a' a rule of the same AtRule under
\* the selector ".n .a", and '&:hover' a rule of the root under ".n:hover";
\* of tree 3 (and 4) the body is a rule of the AtRule under the class
\* selector.
C10_AtRuleKeepsSelector ==
    /\ \A t \in {5, 6} :
           RegisteredFirst(t) => getStyles(heap, last.target) = NestedRendering(last.name)
    /\ \A t \in {3, 4} :
           RegisteredFirst(t) =>
               getStyles(heap, last.target) =
                   media \o << "{" >>
                       \o Rule(Class(last.name),
                               stringifyProperties(Trees[t].entries[1].value.entries))
                       \o << "}" >>

\* C10 happens: tree 5 is registered; the root holds two Styles and the
\* AtRule, and the AtRule two Styles.
C10_Witness ==
    /\ RegisteredFirst(5)
    /\ Len(heap[last.target].cache) = 3
    /\ \E i \in 1..Len(heap[last.target].cache) :
           /\ heap[heap[last.target].cache[i].ref].kind = "AtRule"
           /\ Len(heap[heap[last.target].cache[i].ref].cache) = 2

\* The addresses of the Styles the log adds to containers, in order.
RECURSIVE StylesAdded(_, _)
StylesAdded(h, entries) ==
    IF entries = <<>> THEN <<>>
    ELSE (IF Head(entries).what = "add" /\ h[Head(entries).item].kind = "Style"
          THEN << Head(entries) >> ELSE <<>>)
             \o StylesAdded(h, Tail(entries))

\* The texts of the Selectors a Style holds, in order.
SelectorTexts(h, a) == [i \in 1..Len(h[a].cache) |-> h[h[a].cache[i].ref].text]

\* C11: the two layers of { color: 'red', '.a': { color: 'red' } } compile
\* to one declaration text in one container and share one Style: the two
\* adds are of one id in one cache, the second finds the entry of the first
\* and raises its count by one, and the Style stored gets one Selector per
\* layer; registered on a root that held nothing, the root holds that Style
\* alone with count 2 and getStyles() is ".n,.n .a{color:red;}".
C11_DuplicateLayersShareStyle ==
    (last.op = "registerStyle" /\ last.tree = 7) =>
        LET adds == StylesAdded(heap, log)
            root == heap[last.target]
        IN  /\ Len(adds) = 2
            /\ adds[1].cache = last.target /\ adds[2].cache = last.target
            /\ adds[1].id = adds[2].id
            /\ adds[2].count = adds[1].count + 1
            /\ count(root, adds[1].id) = count(pre[last.target], adds[1].id) + 2
            /\ Cardinality({i \in 1..Len(root.cache) : root.cache[i].id = adds[1].id}) = 1
            /\ LET style == cacheGet(root, adds[1].id)
               IN  /\ heap[style].text = Decl(color, red)
                   /\ \A x \in {Class(last.name), Class(last.name) \o << " " >> \o dotA} :
                          \E i \in 1..Len(heap[style].cache) :
                              heap[heap[style].cache[i].ref].text = x
                   /\ RegisteredFirst(7) =>
                          /\ Len(root.cache) = 1
                          /\ count(root, adds[1].id) = 2
                          /\ SelectorTexts(heap, style) =
                                 << Class(last.name), Class(last.name) \o << " " >> \o dotA >>
                          /\ getStyles(heap, last.target) =
                                 Class(last.name) \o << "," >> \o Class(last.name)
                                     \o << " " >> \o dotA
                                     \o << "{" >> \o Decl(color, red) \o << "}" >>

\* C11 happens: the tree is registered on a root that held nothing, and the
\* one Style of the root holds two Selectors.
C11_Witness ==
    /\ RegisteredFirst(7)
    /\ Len(heap[last.target].cache) = 1
    /\ Len(heap[heap[last.target].cache[1].ref].cache) = 2
    /\ count(heap[last.target], heap[last.target].cache[1].id) = 2

\* The Styles created so far.
Styles(h) == {a \in 1..Len(h) : h[a].kind = "Style"}

\* C12: a Style of empty declaration text renders the empty string
\* whatever Selectors it holds, and a Style of non-empty text renders the
\* Selectors it holds joined by commas and then the text in braces; and a
\* layer with no properties is added to its container and gets its
\* Selector: after { '@media print': ... } is registered on a root that held
\* nothing, the root holds a Style of empty text, counted once, that holds
\* the Selector of the class name and renders nothing.
C12_EmptyStyleRendersNothing ==
    /\ \A a \in Styles(heap) :
           getStyles(heap, a) =
               IF Len(heap[a].text) = 0 THEN <<>>
               ELSE joinWith(SelectorTexts(heap, a), << "," >>)
                        \o << "{" >> \o heap[a].text \o << "}" >>
    /\ \A t \in {3, 4} :
           RegisteredFirst(t) =>
               LET root  == heap[last.target]
                   style == root.cache[1].ref
               IN  /\ Len(root.cache) = 2
                   /\ heap[style].kind = "Style"
                   /\ heap[style].text = <<>>
                   /\ count(root, heap[style].id) = 1
                   /\ SelectorTexts(heap, style) = << Class(last.name) >>
                   /\ getStyles(heap, style) = <<>>

\* C12 happens: a Style of empty text holds a Selector, and a Style of
\* non-empty text holds two.
C12_Witness ==
    /\ \E a \in Styles(heap) : heap[a].text = <<>> /\ Len(heap[a].cache) = 1
    /\ \E a \in Styles(heap) : heap[a].text # <<>> /\ Len(heap[a].cache) = 2

\* The sum of the counts of the entries a cache holds.
RECURSIVE CountSum(_, _)
CountSum(obj, i) ==
    IF i = 0 THEN 0 ELSE count(obj, obj.cache[i].id) + CountSum(obj, i - 1)

\* C16: while only registerStyle is called, for every container and every
\* Style it holds, the count of the Style in the container is the sum of
\* the counts of the Selectors the Style holds.
C16_StyleCountIsSelectorSum ==
    OnlyRegistered =>
        \A a \in Containers(heap) :
            \A i \in 1..Len(heap[a].cache) :
                LET style == heap[heap[a].cache[i].ref]
                IN  style.kind = "Style" =>
                        count(heap[a], style.id) = CountSum(style, Len(style.cache))

\* C16 happens: a Style counted four times holds two Selectors counted
\* twice each.
C16_Witness ==
    /\ OnlyRegistered
    /\ \E a \in Containers(heap) :
           \E i \in 1..Len(heap[a].cache) :
               LET style == heap[heap[a].cache[i].ref]
               IN  /\ style.kind = "Style"
                   /\ count(heap[a], style.id) = 4
                   /\ Len(style.cache) = 2
                   /\ \A j \in 1..2 : count(style, style.cache[j].id) = 2

\* The listeners the emitChange logged at index e has called, in order.
RECURSIVE InvokedBy(_, _)
InvokedBy(entries, e) ==
    IF entries = <<>> THEN <<>>
    ELSE (IF Head(entries).what = "listener" /\ Head(entries).emit = e
          THEN << Head(entries).fn >> ELSE <<>>)
             \o InvokedBy(Tail(entries), e)

\* C13: when a cache emits an event, the listeners registered at that
\* moment are each called once with the event, in the order they were
\* registered, before the call of add or remove returns.
C13_EveryListenerInvoked ==
    \A e \in 1..Len(log) :
        log[e].what = "emit" => InvokedBy(log, e) = log[e].listeners

\* The kind of the item of a log entry.
ItemKind(e) == heap[e.item].kind

\* C17: in one call of registerStyle every add of a Style or an AtRule to a
\* container comes before every add of a Selector to a Style; and a listener
\* called with the "add" event of a Style the call has created finds the
\* Style holding no Selector and rendering its declarations with no
\* selector, or nothing if it has none.
C17_SelectorsAfterTheWalk ==
    last.op = "registerStyle" =>
        /\ \A i, j \in 1..Len(log) :
               (/\ log[i].what = "add" /\ ItemKind(log[i]) \in {"Style", "AtRule"}
                /\ log[j].what = "add" /\ ItemKind(log[j]) = "Selector") => i < j
        /\ \A j \in 1..Len(log) :
               (/\ log[j].what = "listener" /\ log[j].type = "add"
                /\ ItemKind(log[j]) = "Style" /\ log[j].item > Len(pre)) =>
                   /\ log[j].held = <<>>
                   /\ log[j].rendered =
                          IF heap[log[j].item].text = <<>> THEN <<>>
                          ELSE << "{" >> \o heap[log[j].item].text \o << "}" >>

\* C17 happens: a listener is called with the "add" event of a Style of two
\* layers, with declarations, before the Style gets its two Selectors.
C17_Witness ==
    /\ last.op = "registerStyle"
    /\ \E j \in 1..Len(log) :
           /\ log[j].what = "listener" /\ log[j].type = "add"
           /\ ItemKind(log[j]) = "Style"
           /\ log[j].held = <<>>
           /\ heap[log[j].item].text # <<>>
           /\ Len(heap[log[j].item].cache) = 2
           /\ \E k \in (j + 1)..Len(log) :
                  log[k].what = "add" /\ log[k].cache = log[j].item

\* No call of add or remove on the cache has been made since the emitChange
\* that called the listener logged at index j began.
Undisturbed(j) ==
    \A k \in (log[j].emit + 1)..(j - 1) :
        ~(log[k].what \in {"add", "remove"} /\ log[k].cache = log[j].cache)

\* A listener never finds an entry stored with count 0, nor a positive count
\* with no entry stored.
Consistent(e) == (e.stored # NoRef) <=> (e.count > 0)

\* C18 as stated: whenever a listener is called, for "add" has(item) holds
\* and count(item) is 1, for "remove" has(item) fails and count(item) is 0,
\* and the entry is stored exactly if the count is positive.
C18_ListenerSeesChange ==
    \A j \in 1..Len(log) :
        log[j].what = "listener" =>
            /\ log[j].type = "add" => log[j].count = 1
            /\ log[j].type = "remove" => log[j].count = 0
            /\ Consistent(log[j])

\* The emitChange logged at index e was called by add or remove for the
\* change it had just made, not by a caller of emitChange itself.
EmittedByChange(e) == e > 1 /\ log[e - 1].what = log[e].type /\ EventFollows(e - 1)

\* C18 as amended: the same for every listener called for an event that add
\* or remove has emitted, while no listener called before it for the same
\* event has called add or remove on the cache; and whatever the listeners
\* do, the entry is stored exactly if the count is positive.
C18_UndisturbedListenerSeesChange ==
    \A j \in 1..Len(log) :
        log[j].what = "listener" =>
            /\ (Undisturbed(j) /\ EmittedByChange(log[j].emit)) =>
                   /\ log[j].type = "add" =>
                          log[j].count = 1 /\ log[j].stored = log[j].item
                   /\ log[j].type = "remove" =>
                          log[j].count = 0 /\ log[j].stored = NoRef
            /\ Consistent(log[j])

\* C18 happens: the second listener of a "remove" event is called, and the
\* item had been counted twice by a listener that pins what is added.
C18_Witness ==
    \E j \in 1..Len(log) :
        /\ log[j].what = "listener" /\ log[j].type = "remove"
        /\ j = log[j].emit + 2
        /\ Undisturbed(j)
        /\ log[j].count = 0
        /\ \E k \in DOMAIN tally : k[1] = log[j].cache /\ k[4] = log[j].id /\ tally[k].adds >= 2

\* No object is reached from two FreeStyle instances.
Unshared(h) ==
    \A r1, r2 \in Roots(h) : r1 # r2 => Reach(h, r1) \cap Reach(h, r2) = {}

\* The last call has left every FreeStyle instance but its target as it
\* was: the objects reached from it, with their entries, counts and
\* listeners, and what it renders.
OthersUnchanged ==
    \A r \in Roots(pre) :
        r # last.target =>
            /\ \A a \in Reach(pre, r) : heap[a] = pre[a]
            /\ getStyles(heap, r) = getStyles(pre, r)

\* The last call was one that changes its target.
Changing == last.op \in {"registerStyle", "add", "remove", "empty"}

\* getStyles() has changed no object.
RenderingChangesNothing ==
    last.op = "getStyles" => (heap = pre /\ last.styles = getStyles(heap, last.target))

\* C19 as stated: registerStyle, add, remove or empty on one FreeStyle
\* instance leaves the entries, counts, listeners and rendering of every
\* other instance unchanged, and getStyles() changes no cache at all.
C19_RootsIsolated ==
    /\ Changing => OthersUnchanged
    /\ RenderingChangesNothing

\* C19 as amended: the same, for calls made while no object is held by two
\* instances.
C19_UnsharedRootsIsolated ==
    /\ (Changing /\ Unshared(pre)) => OthersUnchanged
    /\ RenderingChangesNothing

\* C19 happens: a tree is registered on one instance while the other holds
\* an object of its own with the same id, rendered, and a listener.
C19_Witness ==
    /\ last.op = "registerStyle"
    /\ Unshared(pre)
    /\ \E r \in Roots(pre) :
           /\ r # last.target
           /\ getStyles(pre, r) # <<>>
           /\ \E i \in 1..Len(heap[last.target].cache) :
                  LET e == heap[last.target].cache[i]
                  IN  cacheGet(heap[r], e.id) \notin {NoRef, e.ref}

\* key with every "&" replaced by parent as it is written.
RECURSIVE Replaced(_, _)
Replaced(key, parent) ==
    IF key = <<>> THEN <<>>
    ELSE (IF Head(key) = "&" THEN parent ELSE << Head(key) >>)
             \o Replaced(Tail(key), parent)

\* C14: interpolate(key, parent) is, for a key that holds "&", the key with
\* every "&" replaced by the parent selector as it is written, and for a
\* key that holds none, the parent, one space and the key.
C14_InterpolateVerbatim ==
    (input.fn = "interpolate" /\ output.returned) =>
        output.value =
            IF \E i \in 1..Len(input.args[1]) : input.args[1][i] = "&"
            THEN Replaced(input.args[1], input.args[2])
            ELSE input.args[2] \o << " " >> \o input.args[1]

\* The declarations of one property: none for null, one for a string, one
\* for each string of an array, in order.
RECURSIVE Declarations(_, _)
Declarations(name, value) ==
    CASE value.type = "null" -> <<>>
      [] value.type = "string" -> Decl(name, value.str)
      [] value.type = "array" ->
             IF value.items = <<>> THEN <<>>
             ELSE Declarations(name, Head(value.items))
                      \o Declarations(name, Arr(Tail(value.items)))

\* C15: in the declaration text of a layer a property whose value is an
\* array gives one declaration per element, under the same name, in array
\* order, repeated elements included, and a property whose value is null
\* gives no character: ['red', 'red'] gives "color:red;color:red;".
C15_ArraysExpandNullsVanish ==
    (input.fn = "stringifyProperties" /\ output.returned) =>
        /\ output.value = Declarations(color, input.args[1])
                              \o Declarations(top, input.args[2])
        /\ (input.args[1] = Arr(<< Str(red), Str(red) >>) /\ input.args[2] = Null) =>
               output.value = Decl(color, red) \o Decl(color, red)
        /\ (input.args[1] = Null /\ input.args[2] = Null) => output.value = <<>>

\* C15 happens: the array holds an element twice, around a null, and the
\* second property is null.
C15_Witness ==
    /\ input.fn = "stringifyProperties" /\ output.returned
    /\ input.args[1] = Arr(<< Str(red), Null, Str(red) >>)
    /\ input.args[2] = Null
    /\ output.value = Decl(color, red) \o Decl(color, red)

\* An unsigned 32-bit number.
Uint32(w) == Len(w) = 2 /\ w[1] \in 0..(Half - 1) /\ w[2] \in 0..(Half - 1)

\* C20: hash returns a number of 0..2^32-1, and the hash of b seeded with
\* the hash of a is the hash of a followed by b; so the class name of
\* { color: v, '.a': { color: 'red' } } is the hash of the selectors and
\* declaration texts of its layers one after the other:
\* "&", "color:v;", "& .a", "color:red;".
C20_HashChains ==
    /\ (input.fn = "hash" /\ output.returned) =>
           /\ Uint32(output.seed)
           /\ Uint32(output.value)
           /\ output.value = hash(input.args[1] \o input.args[2], undefined)
    /\ (input.fn = "registerStyle" /\ output.returned) =>
           output.value =
               hashString(<< "&" >> \o Decl(color, input.args[1])
                              \o << "&", " " >> \o dotA \o Decl(color, red))

====
